---- MODULE Spec2Model ----
(***************************************************************************)
(* A model of application/event_processor/dos.py (the DoSService record,   *)
(* get_changes, get_matching_dos_services) and of                          *)
(* application/common/logger.py (setup_logger and LambdaFilter).           *)
(*                                                                         *)
(* Python values are tagged records: None, str (a sequence of one-char     *)
(* strings) and int.  str(v) is PyStr(v).                                  *)
(***************************************************************************)
EXTENDS Integers, Sequences, FiniteSets, TLC

\* ------------------------------------------------------------------------
\* Python values and str()
\* ------------------------------------------------------------------------

None == [t |-> "NoneType"]

S(chars) == [t |-> "str", v |-> chars]

I(n) == [t |-> "int", v |-> n]

Digit(d) == <<"0", "1", "2", "3", "4", "5", "6", "7", "8", "9">>[d + 1]

RECURSIVE IntToStr(_)
IntToStr(n) ==
  IF n < 0 THEN <<"-">> \o IntToStr(0 - n)
  ELSE IF n < 10 THEN <<Digit(n)>>
  ELSE IntToStr(n \div 10) \o <<Digit(n % 10)>>

\* str(v): the characters Python's str() gives for v
PyStr(v) ==
  CASE v.t = "NoneType" -> <<"N", "o", "n", "e">>
    [] v.t = "int" -> IntToStr(v.v)
    [] v.t = "str" -> v.v

\* s[0:n] of a Python str: the first min(n, len(s)) characters, never an error
Slice0(s, n) == SubSeq(s, 1, IF Len(s) < n THEN Len(s) ELSE n)

\* a Python dict: a function from its keys; d[k] = v adds or replaces a key
EmptyDict == [k \in {} |-> None]

DictSet(d, k, v) == [x \in (DOMAIN d) \cup {k} |-> IF x = k THEN v ELSE d[x]]

\* ------------------------------------------------------------------------
\* class DoSService
\* ------------------------------------------------------------------------

db_columns ==
  << "id", "uid", "name", "odscode", "address", "town", "postcode", "web",
     "email", "fax", "nonpublicphone", "typeid", "parentid", "subregionid",
     "statusid", "createdtime", "modifiedtime", "publicphone", "publicname" >>

ColumnNames == {db_columns[i] : i \in DOMAIN db_columns}

\* DoSService.__init__: attribute db_columns[i] is set to db_cursor_row[i]
DoSService(db_cursor_row) ==
  [a \in ColumnNames |->
     db_cursor_row[CHOOSE i \in DOMAIN db_columns : db_columns[i] = a]]

\* a database row in column order; the columns no operation reads are fixed
Row(uid, name, odscode, postcode, web, typeid, statusid, publicphone, publicname) ==
  << I(1), uid, name, odscode, S(<<"r", "d">>), S(<<"t">>), postcode, web,
     None, None, None, typeid, None, None,
     statusid, None, None, publicphone, publicname >>

\* DoSService.ods5
ods5(self) == Slice0(self.odscode.v, 5)

\* a compare_values that compares the values themselves, not their string forms
compare_valuesRaw(dos_value, nhs_uk_value) == dos_value # nhs_uk_value

\* compare_values: True when the two string forms differ

compare_values(dos_value, nhs_uk_value) == PyStr(dos_value) # PyStr(nhs_uk_value)

\* an add_to_change_request_if_not_equal that records the record's own value
add_to_change_requestDosValue(changes, change_key, dos_value, nhs_uk_value) ==
  IF compare_values(dos_value, nhs_uk_value)
  THEN DictSet(changes, change_key, dos_value)
  ELSE changes

\* add_to_change_request_if_not_equal
add_to_change_request_if_not_equal(changes, change_key, dos_value, nhs_uk_value) ==
  IF compare_values(dos_value, nhs_uk_value)
  THEN DictSet(changes, change_key, nhs_uk_value)
  ELSE changes

\* a name choice by truthiness, which passes over an empty string
EffectiveNameTruthy(self) ==
  IF self.publicname \notin {None, S(<<>>)} THEN self.publicname
  ELSE IF self.name \notin {None, S(<<>>)} THEN self.name
  ELSE S(<<"NO-VALID-NAME">>)

\* DoSService.__repr__, lines 54-59: the name shown
EffectiveName(self) ==
  IF self.publicname # None THEN self.publicname
  ELSE IF self.name # None THEN self.name
  ELSE S(<<"NO-VALID-NAME">>)

\* DoSService.__repr__, line 61: the pieces of the f-string, in order
Repr(self) ==
  << "<uid=", PyStr(self.uid), " ods=", PyStr(self.odscode),
     " type=", PyStr(self.typeid), " status=", PyStr(self.statusid),
     " name='", PyStr(EffectiveName(self)), "'>" >>

\* ------------------------------------------------------------------------
\* The query text and the store that runs it
\* ------------------------------------------------------------------------

\* ', '.join(DoSService.db_columns), as tokens
RECURSIVE JoinColumns(_)
JoinColumns(cols) ==
  IF Len(cols) = 0 THEN <<>>
  ELSE IF Len(cols) = 1 THEN <<cols[1]>>
  ELSE <<cols[1], ",">> \o JoinColumns(Tail(cols))

\* the text of line 149 up to the opening quote, as tokens
SqlHead ==
  <<"SELECT">> \o JoinColumns(db_columns) \o <<"FROM", "services", "WHERE", "odscode", "LIKE">>

\* line 149: the f-string with odscode[0:5] between the quotes, one
\* character per element
SqlCommand(odscode) == SqlHead \o <<"'">> \o Slice0(odscode, 5) \o <<"%", "'">>

\* the store's lexer: a string literal starts at text[i - 1] = "'"; '' inside
\* it is one quote character, a single ' ends it.  Gives the literal and the
\* text left after it, or no literal when the text ends first.
RECURSIVE LexLiteral(_, _, _)
LexLiteral(text, i, acc) ==
  IF i > Len(text) THEN [closed |-> FALSE, literal |-> acc, rest |-> <<>>]
  ELSE IF text[i] = "'"
    THEN IF i + 1 <= Len(text) /\ text[i + 1] = "'"
         THEN LexLiteral(text, i + 2, Append(acc, "'"))
         ELSE [closed |-> TRUE, literal |-> acc, rest |-> SubSeq(text, i + 1, Len(text))]
    ELSE LexLiteral(text, i + 1, Append(acc, text[i]))

\* the store's parser of "SELECT ... WHERE odscode LIKE <literal>": a syntax
\* error unless the literal closes and only a -- comment follows it
ParseQuery(text) ==
  LET n == Len(SqlHead)
  IN IF Len(text) < n + 1 \/ SubSeq(text, 1, n) # SqlHead \/ text[n + 1] # "'"
     THEN [ok |-> FALSE, pattern |-> <<>>]
     ELSE LET lit == LexLiteral(text, n + 2, <<>>)
          IN IF ~lit.closed THEN [ok |-> FALSE, pattern |-> <<>>]
             ELSE IF lit.rest = <<>> THEN [ok |-> TRUE, pattern |-> lit.literal]
             ELSE IF Len(lit.rest) >= 2 /\ lit.rest[1] = "-" /\ lit.rest[2] = "-"
               THEN [ok |-> TRUE, pattern |-> lit.literal]
             ELSE [ok |-> FALSE, pattern |-> <<>>]

\* SQL's s LIKE p: % matches any run of characters, _ any one character,
\* every other character itself and in its own case
RECURSIVE LikeMatch(_, _)
LikeMatch(str, p) ==
  IF p = <<>> THEN str = <<>>
  ELSE IF Head(p) = "%"
    THEN LikeMatch(str, Tail(p)) \/ (str # <<>> /\ LikeMatch(Tail(str), p))
  ELSE IF Head(p) = "_"
    THEN str # <<>> /\ LikeMatch(Tail(str), Tail(p))
  ELSE str # <<>> /\ Head(str) = Head(p) /\ LikeMatch(Tail(str), Tail(p))

\* the rows a parsed query selects, in the table's order; a NULL odscode
\* matches no pattern
RECURSIVE SelectRows(_, _)
SelectRows(table, pattern) ==
  IF table = <<>> THEN <<>>
  ELSE LET row == Head(table)
           hit == row[4].t = "str" /\ LikeMatch(row[4].v, pattern)
       IN (IF hit THEN <<row>> ELSE <<>>) \o SelectRows(Tail(table), pattern)

\* [DoSService(row) for row in rows]
RECURSIVE MakeServices(_)
MakeServices(rows) ==
  IF rows = <<>> THEN <<>> ELSE <<DoSService(Head(rows))>> \o MakeServices(Tail(rows))

\* ------------------------------------------------------------------------
\* State
\* ------------------------------------------------------------------------

VARIABLES
  obs,              \* get_changes: the service record and NHS entity under observation
  gc,               \* get_changes: one call frame per caller
  results,          \* get_changes: the change sets returned by calls on obs
  repr_self,        \* __repr__: the service record
  repr_out,         \* __repr__: the string built, or <<>>
  module_globals,   \* the names bound in the namespace of module dos
  environ,          \* os.environ
  secret_kind,      \* what Secrets Manager holds under the secret name
  db_up,            \* whether the database accepts connections
  services_table,   \* the rows of table services, in the store's order
  prev_sent,        \* the query the store received before the latest one
  m,                \* get_matching_dos_services: the call frame
  concurrent,       \* whether the process handles invocations concurrently
  logger,           \* the logger "lambda": its level and its LambdaFilter count
  inv,              \* setup_logger: one frame per invocation
  records           \* the log records emitted

varsGC == <<obs, gc, results>>

varsRepr == <<repr_self, repr_out>>

varsMatch == <<module_globals, secret_kind, db_up, services_table, prev_sent, m>>

varsLog == <<concurrent, logger, inv, records>>

vars == <<obs, gc, results, repr_self, repr_out, module_globals, environ,
          secret_kind, db_up, services_table, prev_sent, m,
          concurrent, logger, inv, records>>

\* ------------------------------------------------------------------------
\* The frame of get_matching_dos_services and the parts at rest
\* ------------------------------------------------------------------------

NoResult == [kind |-> "none", items |-> <<>>]

ListResult(services) == [kind |-> "list", items |-> services]

IdleMatch ==
  [pc |-> "idle", odscode |-> <<>>, secret_response |-> "none", password |-> FALSE,
   db |-> FALSE, sql_command |-> <<>>, cursor |-> FALSE, fetched |-> <<>>,
   sent |-> <<>>, result |-> NoResult, exc |-> "none", failed |-> "none", done |-> <<>>]

\* the names lines 1-13 and the def and class statements bind in module dos;
\* line 8 binds connect, and no line binds psycopg2
ImportedNames ==
  {"random", "getLogger", "environ", "getenv", "Any", "List", "client", "NHSEntity",
   "connect", "log", "secrets_manager", "VALID_SERVICE_TYPES", "VALID_STATUS_ID",
   "DoSService", "add_to_change_request_if_not_equal", "compare_values",
   "get_addresses", "dummy_dos_service", "get_matching_dos_services"}

ReprUnused ==
  /\ repr_self = <<>>
  /\ repr_out = <<>>

ChangesUnused ==
  /\ obs = <<>>
  /\ gc = <<>>
  /\ results = {}

MatchUnused ==
  /\ module_globals = {}
  /\ secret_kind = "string"
  /\ db_up = TRUE
  /\ services_table = <<>>
  /\ prev_sent = <<>>
  /\ m = <<>>

LogUnused ==
  /\ concurrent = FALSE
  /\ logger = <<>>
  /\ inv = <<>>
  /\ records = {}

NoEnviron == [n \in {} |-> <<>>]

\* ------------------------------------------------------------------------
\* DoSService.get_changes, one statement per step
\* ------------------------------------------------------------------------

\* how many callers run get_changes at once
MaxCallers == 2

Callers == 1..MaxCallers

\* the values the tracked columns of the observed service record range over
SvcWeb == {None, S(<<"a">>)}

SvcPostcode == {S(<<"a", "b">>), S(<<"A", "B", " ">>)}

SvcPublicphone == {I(5), S(<<"0">>)}

SvcPublicname == {None, S(<<"M", "a", "i", "n">>)}

\* the values the attributes of the observed NHS entity range over
EntWebsite == {S(<<"N", "o", "n", "e">>), S(<<"a">>)}

EntPostcode == {S(<<"a", "b">>), S(<<"A", "B">>)}

EntPhone == {S(<<"5">>), S(<<>>)}

EntOrganisationName == {None, S(<<"m", "a", "i", "n">>)}

ObservedServices ==
  { DoSService(Row(S(<<"u">>), S(<<"n">>), S(<<"F", "A", "1">>), pc, w, I(13), I(1), ph, pn)) :
      w \in SvcWeb, pc \in SvcPostcode, ph \in SvcPublicphone, pn \in SvcPublicname }

ObservedEntities ==
  [Website : EntWebsite, Postcode : EntPostcode, Phone : EntPhone,
   OrganisationName : EntOrganisationName]

\* another record and entity, which differ in all four tracked fields
OtherService ==
  DoSService(Row(S(<<"v">>), None, S(<<"F", "B", "2">>), S(<<"x">>), S(<<"x">>),
                 I(131), I(1), S(<<"x">>), S(<<"x">>)))

OtherEntity ==
  [Website |-> S(<<"y">>), Postcode |-> S(<<"y">>), Phone |-> I(7),
   OrganisationName |-> S(<<"y">>)]

Targets == {"obs", "other"}

\* the arguments of a call on a target
Self(target) == IF target = "obs" THEN obs.self ELSE OtherService

Entity(target) == IF target = "obs" THEN obs.nhs_entity ELSE OtherEntity

IdleFrame == [pc |-> "idle", target |-> "obs", changes |-> EmptyDict]

\* a dict that outlives the call: the caller's previous change set
NewChangesKept(t) == gc[t].changes

\* line 71: changes = {}
NewChanges(t) == EmptyDict

InitChanges ==
  /\ obs \in [self : ObservedServices, nhs_entity : ObservedEntities]
  /\ gc = [t \in Callers |-> IdleFrame]
  /\ results = {}
  /\ environ = NoEnviron
  /\ ReprUnused
  /\ MatchUnused
  /\ LogUnused

\* the call and line 71
GC_Call(t, target) ==
  /\ gc[t].pc \in {"idle", "returned"}
  /\ gc' = [gc EXCEPT ![t] = [pc |-> "l72", target |-> target, changes |-> NewChanges(t)]]
  /\ UNCHANGED <<obs, results, environ, varsRepr, varsMatch, varsLog>>

\* line 72
GC_Website(t) ==
  /\ gc[t].pc = "l72"
  /\ gc' = [gc EXCEPT ![t].pc = "l73",
                      ![t].changes = add_to_change_request_if_not_equal(
                         @, "website", Self(gc[t].target).web, Entity(gc[t].target).Website)]
  /\ UNCHANGED <<obs, results, environ, varsRepr, varsMatch, varsLog>>

\* line 73
GC_Postcode(t) ==
  /\ gc[t].pc = "l73"
  /\ gc' = [gc EXCEPT ![t].pc = "l74",
                      ![t].changes = add_to_change_request_if_not_equal(
                         @, "postcode", Self(gc[t].target).postcode, Entity(gc[t].target).Postcode)]
  /\ UNCHANGED <<obs, results, environ, varsRepr, varsMatch, varsLog>>

\* line 74
GC_Publicphone(t) ==
  /\ gc[t].pc = "l74"
  /\ gc' = [gc EXCEPT ![t].pc = "l75",
                      ![t].changes = add_to_change_request_if_not_equal(
                         @, "publicphone", Self(gc[t].target).publicphone, Entity(gc[t].target).Phone)]
  /\ UNCHANGED <<obs, results, environ, varsRepr, varsMatch, varsLog>>

\* lines 75-77
GC_Publicname(t) ==
  /\ gc[t].pc = "l75"
  /\ gc' = [gc EXCEPT ![t].pc = "l78",
                      ![t].changes = add_to_change_request_if_not_equal(
                         @, "publicname", Self(gc[t].target).publicname,
                         Entity(gc[t].target).OrganisationName)]
  /\ UNCHANGED <<obs, results, environ, varsRepr, varsMatch, varsLog>>

\* line 78: return changes
GC_Return(t) ==
  /\ gc[t].pc = "l78"
  /\ gc' = [gc EXCEPT ![t].pc = "returned"]
  /\ results' = IF gc[t].target = "obs" THEN results \cup {gc[t].changes} ELSE results
  /\ UNCHANGED <<obs, environ, varsRepr, varsMatch, varsLog>>

NextChanges ==
  \/ \E t \in Callers, target \in Targets : GC_Call(t, target)
  \/ \E t \in Callers : GC_Website(t)
  \/ \E t \in Callers : GC_Postcode(t)
  \/ \E t \in Callers : GC_Publicphone(t)
  \/ \E t \in Callers : GC_Publicname(t)
  \/ \E t \in Callers : GC_Return(t)

SpecChanges == InitChanges /\ [][NextChanges]_vars

\* ------------------------------------------------------------------------
\* Properties of get_changes
\* ------------------------------------------------------------------------

ChangeKeys == {"website", "postcode", "publicphone", "publicname"}

\* the record's value and the entity's value that a change key compares
DosValue(self, k) ==
  CASE k = "website" -> self.web
    [] k = "postcode" -> self.postcode
    [] k = "publicphone" -> self.publicphone
    [] k = "publicname" -> self.publicname

NhsValue(e, k) ==
  CASE k = "website" -> e.Website
    [] k = "postcode" -> e.Postcode
    [] k = "publicphone" -> e.Phone
    [] k = "publicname" -> e.OrganisationName

Differing(self, e) == {k \in ChangeKeys : PyStr(DosValue(self, k)) # PyStr(NhsValue(e, k))}

Returned(t) == gc[t].pc = "returned"

\* C1: the change set returned by get_changes has a key exactly for the fields
\* whose string forms differ between record and entity, no other key, and is
\* empty exactly when all four string forms agree (exact comparison).
C1_KeysIffStringFormsDiffer ==
  \A t \in Callers :
    Returned(t) =>
      /\ DOMAIN gc[t].changes = Differing(Self(gc[t].target), Entity(gc[t].target))
      /\ DOMAIN gc[t].changes \subseteq ChangeKeys
      /\ (gc[t].changes = EmptyDict) <=>
           (\A k \in ChangeKeys :
              PyStr(DosValue(Self(gc[t].target), k)) = PyStr(NhsValue(Entity(gc[t].target), k)))

\* a returned change set that omits website although the record holds None
\* and the entity the string "None", and keeps postcode for a difference of
\* case only
C1_Witness ==
  \E t \in Callers :
    /\ Returned(t)
    /\ gc[t].target = "obs"
    /\ obs.self.web = None
    /\ obs.nhs_entity.Website = S(<<"N", "o", "n", "e">>)
    /\ obs.self.postcode = S(<<"a", "b">>)
    /\ obs.nhs_entity.Postcode = S(<<"A", "B">>)
    /\ "website" \notin DOMAIN gc[t].changes
    /\ "postcode" \in DOMAIN gc[t].changes

\* C2: every key of the returned change set maps to the entity's value, and
\* a pair that differs in exactly one tracked field yields exactly one key.
C2_ValueIsEntityValue ==
  \A t \in Callers :
    Returned(t) =>
      /\ \A k \in DOMAIN gc[t].changes : gc[t].changes[k] = NhsValue(Entity(gc[t].target), k)
      /\ Cardinality(Differing(Self(gc[t].target), Entity(gc[t].target))) = 1
           => Cardinality(DOMAIN gc[t].changes) = 1

\* a returned change set with the single key publicname, mapped to the
\* entity's None
C2_Witness ==
  \E t \in Callers :
    /\ Returned(t)
    /\ gc[t].target = "obs"
    /\ DOMAIN gc[t].changes = {"publicname"}
    /\ obs.self.publicname # None
    /\ gc[t].changes["publicname"] = None

\* C7: get_changes leaves the record and the entity as they were, and all the
\* calls on the same record and entity, however interleaved with other
\* calls, return the same change set.
C7_PureAndRepeatable ==
  [][obs' = obs /\ Cardinality(results') <= 1]_vars

\* both callers have returned from a call on the observed pair, with one and
\* the same non-empty change set
C7_Witness ==
  /\ \A t \in Callers : Returned(t) /\ gc[t].target = "obs"
  /\ Cardinality(results) = 1
  /\ \E c \in results : c # EmptyDict

\* ------------------------------------------------------------------------
\* get_matching_dos_services, one statement per step
\* ------------------------------------------------------------------------

\* the settings lines 132-136 read, in order
DbSettings == <<"DB_SERVER", "DB_PORT", "DB_NAME", "DB_USER_NAME", "DB_SECRET_NAME">>

FullEnviron == [n \in {DbSettings[i] : i \in DOMAIN DbSettings} |-> <<"x">>]

Without(env, name) == [n \in (DOMAIN env) \ {name} |-> env[n]]

\* the identifiers passed in
Identifiers ==
  { <<"F", "A", "1", "2", "3">>,
    <<"F", "A", "1", "2", "3", "4">>,
    <<"F", "A", "1", "2">>,
    <<"A", "B">>,
    <<"f", "a", "1", "2", "3">>,
    <<"F", "A", "_", "2", "3">>,
    <<"F", "%">>,
    <<"F", "A", "'", "2", "3">>,
    <<"F", "'", "-", "-">> }

\* a row of table services with the given uid and odscode
ServiceRow(uid, odscode) ==
  Row(I(uid), S(<<"n">>), odscode, S(<<"p">>), None, I(13), I(1), None, None)

RowFA123 == ServiceRow(1, S(<<"F", "A", "1", "2", "3">>))

RowFA12345 == ServiceRow(2, S(<<"F", "A", "1", "2", "3", "4", "5">>))

RowFAX23 == ServiceRow(3, S(<<"F", "A", "X", "2", "3">>))

Rowfa123 == ServiceRow(4, S(<<"f", "a", "1", "2", "3">>))

RowF == ServiceRow(5, S(<<"F">>))

RowAB1 == ServiceRow(6, S(<<"A", "B", "1">>))

RowNull == ServiceRow(7, None)

\* the contents of table services, in the store's order
Tables ==
  { <<>>,
    <<RowFA12345, RowFAX23, RowFA123, Rowfa123>>,
    <<RowAB1, RowNull, RowF, RowFA123, RowFA12345>> }

\* The namespace of module dos is ImportedNames after the import.  A module's
\* attributes can be assigned from outside it (dos.psycopg2 = psycopg2, or a
\* test's patch): the second namespace is the one in which line 144 finds the
\* name it looks up, and the only one in which lines 149-155 run.
InitMatch ==
  /\ module_globals \in {ImportedNames, ImportedNames \cup {"psycopg2"}}
  /\ environ \in {FullEnviron} \cup {Without(FullEnviron, DbSettings[i]) : i \in DOMAIN DbSettings}
  /\ secret_kind \in {"string", "binary", "denied"}
  /\ db_up \in BOOLEAN
  /\ services_table \in Tables
  /\ prev_sent = <<>>
  /\ m = IdleMatch
  /\ ChangesUnused
  /\ ReprUnused
  /\ LogUnused

\* a step of the call that completes
Do(f, step) == [f EXCEPT !.done = Append(@, step)]

\* a failing step whose error is caught and answered with an empty list
RaiseSwallowed(f, step, exc) ==
  [Do(f, step) EXCEPT !.pc = "returned", !.failed = step, !.result = ListResult(<<>>)]

\* a step of the call that raises: nothing in the function catches it
Raise(f, step, exc) ==
  [Do(f, step) EXCEPT !.pc = "raised", !.exc = exc, !.failed = step]

SettingPc(i) == <<"l132", "l133", "l134", "l135", "l136">>[i]

\* the call; line 129 logs the identifier
M_Call(odscode) ==
  /\ m.pc \in {"idle", "returned", "raised"}
  /\ m' = [IdleMatch EXCEPT !.pc = "l132", !.odscode = odscode]
  /\ prev_sent' = IF m.sent # <<>> THEN m.sent[Len(m.sent)].text ELSE prev_sent
  /\ UNCHANGED <<module_globals, environ, secret_kind, db_up, services_table, varsGC, varsRepr, varsLog>>

\* lines 132-136: environ[name], a KeyError when the name is not set
M_ReadSetting(i) ==
  /\ m.pc = SettingPc(i)
  /\ m' = IF DbSettings[i] \in DOMAIN environ
          THEN [Do(m, DbSettings[i]) EXCEPT !.pc = IF i < 5 THEN SettingPc(i + 1) ELSE "l139"]
          ELSE Raise(m, DbSettings[i], "KeyError")
  /\ UNCHANGED <<module_globals, environ, secret_kind, db_up, services_table, prev_sent, varsGC, varsRepr, varsLog>>

\* line 139: secrets_manager.get_secret_value
M_GetSecret ==
  /\ m.pc = "l139"
  /\ m' = IF secret_kind = "denied"
          THEN Raise(m, "get_secret_value", "ClientError")
          ELSE [Do(m, "get_secret_value") EXCEPT !.pc = "l140", !.secret_response = secret_kind]
  /\ UNCHANGED <<module_globals, environ, secret_kind, db_up, services_table, prev_sent, varsGC, varsRepr, varsLog>>

\* line 140: secret_response["SecretString"], a KeyError for a binary secret
M_SecretString ==
  /\ m.pc = "l140"
  /\ m' = IF m.secret_response = "string"
          THEN [Do(m, "SecretString") EXCEPT !.pc = "l144", !.password = TRUE]
          ELSE Raise(m, "SecretString", "KeyError")
  /\ UNCHANGED <<module_globals, environ, secret_kind, db_up, services_table, prev_sent, varsGC, varsRepr, varsLog>>

\* lines 142-144: psycopg2.connect(...): the name psycopg2 is looked up in the
\* module's namespace first, a NameError when it is not bound there
M_Connect ==
  /\ m.pc = "l144"
  /\ m' = IF "psycopg2" \notin module_globals THEN Raise(m, "connect", "NameError")
          ELSE IF ~db_up THEN Raise(m, "connect", "OperationalError")
          ELSE [Do(m, "connect") EXCEPT !.pc = "l149", !.db = TRUE]
  /\ UNCHANGED <<module_globals, environ, secret_kind, db_up, services_table, prev_sent, varsGC, varsRepr, varsLog>>

\* lines 149-150: the query text
M_BuildSql ==
  /\ m.pc = "l149"
  /\ m' = [m EXCEPT !.pc = "l151", !.sql_command = SqlCommand(m.odscode)]
  /\ UNCHANGED <<module_globals, environ, secret_kind, db_up, services_table, prev_sent, varsGC, varsRepr, varsLog>>

\* line 151: c = db.cursor()
M_Cursor ==
  /\ m.pc = "l151"
  /\ m' = [m EXCEPT !.pc = "l152", !.cursor = TRUE]
  /\ UNCHANGED <<module_globals, environ, secret_kind, db_up, services_table, prev_sent, varsGC, varsRepr, varsLog>>

\* line 152: c.execute(sql_command), with no bound parameters: the store
\* parses the text; it may also fail on its own
M_Execute(lost) ==
  /\ m.pc = "l152"
  /\ LET q == [text |-> m.sql_command, params |-> <<>>]
         parsed == ParseQuery(q.text)
         issued == [m EXCEPT !.sent = Append(@, q)]
     IN m' = IF lost THEN Raise(issued, "execute", "OperationalError")
             ELSE IF ~parsed.ok THEN Raise(issued, "execute", "ProgrammingError")
             ELSE [Do(issued, "execute") EXCEPT
                     !.pc = "l154",
                     !.fetched = SelectRows(services_table, parsed.pattern)]
  /\ UNCHANGED <<module_globals, environ, secret_kind, db_up, services_table, prev_sent, varsGC, varsRepr, varsLog>>

\* line 154: c.fetchall() and one DoSService per row
M_Fetch(lost) ==
  /\ m.pc = "l154"
  /\ m' = IF lost THEN Raise(m, "fetchall", "OperationalError")
          ELSE [Do(m, "fetchall") EXCEPT !.pc = "l155",
                                         !.result = ListResult(MakeServices(m.fetched))]
  /\ UNCHANGED <<module_globals, environ, secret_kind, db_up, services_table, prev_sent, varsGC, varsRepr, varsLog>>

\* line 155: return services
M_Return ==
  /\ m.pc = "l155"
  /\ m' = [m EXCEPT !.pc = "returned"]
  /\ UNCHANGED <<module_globals, environ, secret_kind, db_up, services_table, prev_sent, varsGC, varsRepr, varsLog>>

NextMatch ==
  \/ \E odscode \in Identifiers : M_Call(odscode)
  \/ \E i \in DOMAIN DbSettings : M_ReadSetting(i)
  \/ M_GetSecret
  \/ M_SecretString
  \/ M_Connect
  \/ M_BuildSql
  \/ M_Cursor
  \/ \E lost \in BOOLEAN : M_Execute(lost)
  \/ \E lost \in BOOLEAN : M_Fetch(lost)
  \/ M_Return

SpecMatch == InitMatch /\ [][NextMatch]_vars

\* ------------------------------------------------------------------------
\* Properties of get_matching_dos_services
\* ------------------------------------------------------------------------

Finished == m.pc \in {"returned", "raised"}

\* the settings, the secret and the store are available
AllAvailable == environ = FullEnviron /\ secret_kind = "string" /\ db_up

\* the store did not fail on its own during the call
StoreHeld == m.exc # "OperationalError"

IsPrefix(p, str) == Len(p) <= Len(str) /\ SubSeq(str, 1, Len(p)) = p

Position(seq, x) == CHOOSE i \in DOMAIN seq : seq[i] = x

Has(seq, x) == \E i \in DOMAIN seq : seq[i] = x

\* the rows whose odscode starts with the characters of p, taken literally
LiteralPrefixRows(table, p) ==
  LET Starts(row) == row[4].t = "str" /\ IsPrefix(p, row[4].v)
  IN SelectSeq(table, Starts)

C5_FailureSurfaces ==
  /\ m.failed # "none" =>
       /\ m.pc = "raised"
       /\ m.exc # "none"
       /\ m.result = NoResult
       /\ m.done[Len(m.done)] = m.failed
  /\ m.pc = "raised" => m.failed # "none"
  /\ m.pc = "returned" => m.result.kind = "list" /\ m.exc = "none"
  /\ \A i \in DOMAIN DbSettings :
       DbSettings[i] \notin DOMAIN environ =>
         /\ m.pc # "returned"
         /\ ~Has(m.done, "get_secret_value")
         /\ \A j \in DOMAIN DbSettings : j > i => ~Has(m.done, DbSettings[j])
  /\ secret_kind = "denied" => m.pc # "returned" /\ ~Has(m.done, "SecretString")
  /\ secret_kind = "binary" => m.pc # "returned" /\ ~Has(m.done, "connect")
  /\ (~db_up \/ "psycopg2" \notin module_globals) =>
       m.pc # "returned" /\ ~m.cursor /\ m.sent = <<>>
  /\ (m.sent # <<>> /\ ~ParseQuery(m.sent[1].text).ok) =>
       m.pc = "raised" /\ ~Has(m.done, "fetchall")

\* the secret retrieval failed after the five settings were read, and the call
\* ended with that error: no connection, no query, no list
C5_Witness ==
  /\ m.pc = "raised"
  /\ m.failed = "get_secret_value"
  /\ m.exc = "ClientError"
  /\ Len(m.done) = 6
  /\ ~m.db
  /\ m.sent = <<>>
  /\ m.result = NoResult

\* C6: an invocation with settings, secret and store available issues exactly
\* one query, after its own secret retrieval and connection.
C6_OneQueryPerInvocation ==
  (Finished /\ AllAvailable /\ StoreHeld) =>
    /\ Len(m.sent) = 1
    /\ Has(m.done, "get_secret_value") /\ Has(m.done, "connect") /\ Has(m.done, "execute")
    /\ Position(m.done, "get_secret_value") < Position(m.done, "connect")
    /\ Position(m.done, "connect") < Position(m.done, "execute")

\* C8: the prefix in the query is the first min(5, length) characters of the
\* identifier, an identifier shorter than 5 characters is used whole without
\* an error, and ods5 gives the first min(5, length) characters of odscode.
C8_PrefixWithoutError ==
  /\ \A i \in DOMAIN m.sent :
       m.sent[i].text =
         SqlHead \o <<"'">>
           \o SubSeq(m.odscode, 1, IF Len(m.odscode) < 5 THEN Len(m.odscode) ELSE 5)
           \o <<"%", "'">>
  /\ (Finished /\ AllAvailable /\ StoreHeld /\ Len(m.odscode) < 5) =>
       /\ m.exc = "none"
       /\ m.sent # <<>>
       /\ ParseQuery(m.sent[1].text).ok
  /\ \A i \in DOMAIN m.result.items :
       LET code == m.result.items[i].odscode.v
       IN ods5(m.result.items[i]) = SubSeq(code, 1, IF Len(code) < 5 THEN Len(code) ELSE 5)

\* ------------------------------------------------------------------------
\* DoSService.__repr__
\* ------------------------------------------------------------------------

\* the service records __repr__ is applied to
ReprServices ==
  { DoSService(Row(uid, name, ods, S(<<"p">>), None, typeid, statusid, None, publicname)) :
      uid \in {S(<<"u">>), None},
      name \in {None, S(<<>>), S(<<"n">>)},
      ods \in {S(<<"F", "A", "1">>), None},
      typeid \in {I(13), I(131)},
      statusid \in {I(1), I(2)},
      publicname \in {None, S(<<>>), S(<<"p", "n">>)} }

InitRepr ==
  /\ repr_self \in ReprServices
  /\ repr_out = <<>>
  /\ environ = NoEnviron
  /\ ChangesUnused
  /\ MatchUnused
  /\ LogUnused

\* lines 52-61
R_Repr ==
  /\ repr_out = <<>>
  /\ repr_out' = Repr(repr_self)
  /\ UNCHANGED <<repr_self, environ, varsGC, varsMatch, varsLog>>

NextRepr == R_Repr

SpecRepr == InitRepr /\ [][NextRepr]_vars

\* the name between the quotes of the string built
NameShown == repr_out[10]

\* C9 as stated: the name shown is publicname whenever publicname is
\* present, and name otherwise.
C9_NameOrPublicname ==
  repr_out # <<>> =>
    NameShown = IF repr_self.publicname # None THEN PyStr(repr_self.publicname)
                ELSE PyStr(repr_self.name)

\* C9 as amended: the name shown is publicname when publicname is not None
\* (an empty string included), else name when name is not None, else the
\* literal NO-VALID-NAME.
C9_NameShown ==
  repr_out # <<>> =>
    /\ repr_self.publicname # None => NameShown = PyStr(repr_self.publicname)
    /\ (repr_self.publicname = None /\ repr_self.name # None) => NameShown = PyStr(repr_self.name)
    /\ (repr_self.publicname = None /\ repr_self.name = None) => NameShown = <<"NO-VALID-NAME">>

\* a record with neither name, shown as NO-VALID-NAME
C9_Witness ==
  /\ repr_out # <<>>
  /\ repr_self.publicname = None
  /\ repr_self.name = None
  /\ NameShown = <<"NO-VALID-NAME">>

\* ------------------------------------------------------------------------
\* logger.py: setup_logger and LambdaFilter, one statement per step
\* ------------------------------------------------------------------------

Invocations == {1, 2}

\* how many records the handler of one invocation logs
MaxLogs == 1

\* context.function_name and context.aws_request_id of an invocation
FunctionName(i) == S(<<"f", "n">>)

RequestId(i) == S(<<"r", Digit(i)>>)

DefaultTraceId == <<"00000-00000-00000">>

\* os.getenv(name): the value, or None when the name is not set
getenv(name) == IF name \in DOMAIN environ THEN S(environ[name]) ELSE None

\* os.environ[name] = value
SetEnv(env, name, value) ==
  [n \in (DOMAIN env) \cup {name} |-> IF n = name THEN value ELSE env[n]]

IdleInv ==
  [pc |-> "idle", ret |-> "idle", msg |-> "", attrs |-> EmptyDict, passes |-> 0,
   log_level |-> <<>>, x_ray_trace_id |-> None, logs |-> 0]

Resting(i) == inv[i].pc \in {"idle", "done", "raised"}

InitLogger ==
  /\ concurrent \in BOOLEAN
  /\ environ \in
       { [n \in names |-> IF n = "LOG_LEVEL" THEN lvl ELSE <<"Root=1">>] :
           names \in SUBSET {"LOG_LEVEL", "_X_AMZN_TRACE_ID"},
           lvl \in {<<"DEBUG">>, <<"INFO">>} }
  /\ logger = [level |-> <<"WARNING">>, filters |-> 0]
  /\ inv = [i \in Invocations |-> IdleInv]
  /\ records = {}
  /\ ChangesUnused
  /\ ReprUnused
  /\ MatchUnused

\* whether the logger lets a record of this level through
IsEnabledFor(level) ==
  \/ logger.level = <<"DEBUG">>
  \/ logger.level = <<"INFO">> /\ level \in {"INFO", "WARNING"}
  \/ logger.level = <<"WARNING">> /\ level = "WARNING"

\* the record a frame has built
RecordOf(i, f) == [emitter |-> i, msg |-> f.msg, attrs |-> f.attrs]

\* the lambda runtime calls the decorated handler
L_Start(i) ==
  /\ inv[i].pc = "idle"
  /\ concurrent \/ \A j \in Invocations \ {i} : Resting(j)
  /\ inv' = [inv EXCEPT ![i].pc = "l21"]
  /\ UNCHANGED <<concurrent, logger, records, environ, varsGC, varsRepr, varsMatch>>

\* line 21: fileConfig sets the level logging.conf gives and leaves the
\* logger's filters in place
L_FileConfig(i, level) ==
  /\ inv[i].pc = "l21"
  /\ logger' = [logger EXCEPT !.level = level]
  /\ inv' = [inv EXCEPT ![i].pc = "l56"]
  /\ UNCHANGED <<concurrent, records, environ, varsGC, varsRepr, varsMatch>>

\* line 56
L_ExportFunctionName(i) ==
  /\ inv[i].pc = "l56"
  /\ environ' = SetEnv(environ, "LOGGING_FUNCTION_NAME", PyStr(FunctionName(i)))
  /\ inv' = [inv EXCEPT ![i].pc = "l57"]
  /\ UNCHANGED <<concurrent, logger, records, varsGC, varsRepr, varsMatch>>

\* line 57
L_ExportRequestId(i) ==
  /\ inv[i].pc = "l57"
  /\ environ' = SetEnv(environ, "LOGGING_REQUEST_ID", PyStr(RequestId(i)))
  /\ inv' = [inv EXCEPT ![i].pc = "l58"]
  /\ UNCHANGED <<concurrent, logger, records, varsGC, varsRepr, varsMatch>>

\* lines 58-60
L_GetTraceId(i) ==
  /\ inv[i].pc = "l58"
  /\ inv' = [inv EXCEPT ![i].pc = "l61",
                        ![i].x_ray_trace_id =
                           IF getenv("_X_AMZN_TRACE_ID") = None THEN S(DefaultTraceId)
                           ELSE getenv("_X_AMZN_TRACE_ID")]
  /\ UNCHANGED <<concurrent, logger, records, environ, varsGC, varsRepr, varsMatch>>

\* line 61
L_ExportTraceId(i) ==
  /\ inv[i].pc = "l61"
  /\ environ' = SetEnv(environ, "LOGGING_X_AMZN_TRACE_ID", inv[i].x_ray_trace_id.v)
  /\ inv' = [inv EXCEPT ![i].pc = "l44"]
  /\ UNCHANGED <<concurrent, logger, records, varsGC, varsRepr, varsMatch>>

\* line 44: environ["LOG_LEVEL"], a KeyError when it is not set
L_ReadLogLevel(i) ==
  /\ inv[i].pc = "l44"
  /\ inv' = IF "LOG_LEVEL" \in DOMAIN environ
            THEN [inv EXCEPT ![i].pc = "l45", ![i].log_level = environ["LOG_LEVEL"]]
            ELSE [inv EXCEPT ![i].pc = "raised"]
  /\ UNCHANGED <<concurrent, logger, records, environ, varsGC, varsRepr, varsMatch>>

\* line 45
L_SetLevel(i) ==
  /\ inv[i].pc = "l45"
  /\ logger' = [logger EXCEPT !.level = inv[i].log_level]
  /\ inv' = [inv EXCEPT ![i].pc = "l46"]
  /\ UNCHANGED <<concurrent, records, environ, varsGC, varsRepr, varsMatch>>

\* Logger.handle, from the frames `frames`: a record of a level the logger
\* lets through goes to each of the logger's filters in turn, or straight out
\* when the logger has none
Log(i, frames, level, msg, ret) ==
  IF ~IsEnabledFor(level)
  THEN /\ inv' = [frames EXCEPT ![i].pc = ret]
       /\ UNCHANGED records
  ELSE IF logger.filters = 0
  THEN /\ inv' = [frames EXCEPT ![i].pc = ret]
       /\ records' = records \cup {[emitter |-> i, msg |-> msg, attrs |-> EmptyDict]}
  ELSE /\ inv' = [frames EXCEPT ![i].pc = "l80", ![i].ret = ret, ![i].msg = msg,
                                ![i].attrs = EmptyDict, ![i].passes = logger.filters]
       /\ UNCHANGED records

\* line 46: logger.debug("Logger set to ... mode")
L_DebugLevelSet(i) ==
  /\ inv[i].pc = "l46"
  /\ Log(i, inv, "DEBUG", "Logger set to", "l25")
  /\ UNCHANGED <<concurrent, logger, environ, varsGC, varsRepr, varsMatch>>

\* line 25
L_AddFilter(i) ==
  /\ inv[i].pc = "l25"
  /\ logger' = [logger EXCEPT !.filters = @ + 1]
  /\ inv' = [inv EXCEPT ![i].pc = "l26"]
  /\ UNCHANGED <<concurrent, records, environ, varsGC, varsRepr, varsMatch>>

\* line 26: the handler logs a record
L_HandlerLog(i) ==
  /\ inv[i].pc = "l26"
  /\ inv[i].logs < MaxLogs
  /\ Log(i, [inv EXCEPT ![i].logs = @ + 1], "INFO", "handler", "l26")
  /\ UNCHANGED <<concurrent, logger, environ, varsGC, varsRepr, varsMatch>>

\* line 26: the handler returns
L_HandlerReturn(i) ==
  /\ inv[i].pc = "l26"
  /\ inv' = [inv EXCEPT ![i].pc = "done"]
  /\ UNCHANGED <<concurrent, logger, records, environ, varsGC, varsRepr, varsMatch>>

\* line 80
L_FilterFunctionName(i) ==
  /\ inv[i].pc = "l80"
  /\ inv' = [inv EXCEPT ![i].pc = "l81",
                        ![i].attrs = DictSet(@, "function_name", getenv("LOGGING_FUNCTION_NAME"))]
  /\ UNCHANGED <<concurrent, logger, records, environ, varsGC, varsRepr, varsMatch>>

\* line 81
L_FilterRequestId(i) ==
  /\ inv[i].pc = "l81"
  /\ inv' = [inv EXCEPT ![i].pc = "l82",
                        ![i].attrs = DictSet(@, "aws_request_id", getenv("LOGGING_REQUEST_ID"))]
  /\ UNCHANGED <<concurrent, logger, records, environ, varsGC, varsRepr, varsMatch>>

\* lines 82-83; after the last filter the record goes out
L_FilterTraceId(i) ==
  /\ inv[i].pc = "l82"
  /\ LET tagged == [inv[i] EXCEPT
                      !.attrs = DictSet(@, "x_ray_trace_id", getenv("LOGGING_X_AMZN_TRACE_ID")),
                      !.passes = @ - 1]
     IN IF tagged.passes > 0
        THEN /\ inv' = [inv EXCEPT ![i] = [tagged EXCEPT !.pc = "l80"]]
             /\ UNCHANGED records
        ELSE /\ inv' = [inv EXCEPT ![i] = [tagged EXCEPT !.pc = tagged.ret]]
             /\ records' = records \cup {RecordOf(i, tagged)}
  /\ UNCHANGED <<concurrent, logger, environ, varsGC, varsRepr, varsMatch>>

NextLogger ==
  \/ \E i \in Invocations : L_Start(i)
  \/ \E i \in Invocations, level \in {<<"WARNING">>, <<"INFO">>, <<"DEBUG">>} : L_FileConfig(i, level)
  \/ \E i \in Invocations : L_ExportFunctionName(i)
  \/ \E i \in Invocations : L_ExportRequestId(i)
  \/ \E i \in Invocations : L_GetTraceId(i)
  \/ \E i \in Invocations : L_ExportTraceId(i)
  \/ \E i \in Invocations : L_ReadLogLevel(i)
  \/ \E i \in Invocations : L_SetLevel(i)
  \/ \E i \in Invocations : L_DebugLevelSet(i)
  \/ \E i \in Invocations : L_AddFilter(i)
  \/ \E i \in Invocations : L_HandlerLog(i)
  \/ \E i \in Invocations : L_HandlerReturn(i)
  \/ \E i \in Invocations : L_FilterFunctionName(i)
  \/ \E i \in Invocations : L_FilterRequestId(i)
  \/ \E i \in Invocations : L_FilterTraceId(i)

SpecLogger == InitLogger /\ [][NextLogger]_vars

\* a record carries the request id of the invocation that emitted it
OwnRequestId(r) ==
  /\ "aws_request_id" \in DOMAIN r.attrs
  /\ r.attrs["aws_request_id"] = RequestId(r.emitter)

\* C10: when invocations run one at a time, every record carries the request
\* id of the invocation that emitted it.
C10_OwnRequestIdWhenSequential ==
  ~concurrent => \A r \in records : OwnRequestId(r)

\* C10: under concurrency a record emitted by one invocation is tagged with
\* the other invocation's request id
C10_CrossTagged ==
  /\ concurrent
  /\ \E r \in records :
       /\ "aws_request_id" \in DOMAIN r.attrs
       /\ r.attrs["aws_request_id"] = RequestId(3 - r.emitter)

====
